---- MODULE Spec2Model ----
(***************************************************************************)
(* A model of test_jupyter_proxy.py: the request handler ProxyTestHandler  *)
(* and the startup operation start_test_server, together with the parts of *)
(* socketserver / http.server they rest on (bind, the accept loop, the     *)
(* static-file handler, request logging).                                  *)
(*                                                                         *)
(* Text is a sequence of tokens.  Everything the code inspects or          *)
(* interpolates (paths, environment values, port numbers, quotes) is       *)
(* spelled one character per token; fixed template text that is only       *)
(* written out is carried as one token per fragment.                       *)
(***************************************************************************)
EXTENDS Integers, Sequences, FiniteSets, TLC

\* ------------------------------------------------------------------ bounds

\* calls of start_test_server the main thread makes
MaxCalls == 1

\* ------------------------------------------------------------------- text

Digit(d) == CASE d = 0 -> "0" [] d = 1 -> "1" [] d = 2 -> "2" [] d = 3 -> "3"
              [] d = 4 -> "4" [] d = 5 -> "5" [] d = 6 -> "6" [] d = 7 -> "7"
              [] d = 8 -> "8" [] d = 9 -> "9"

RECURSIVE IntToStr(_)
\* str(n) / f"{n}" of a non-negative int: its decimal digits
IntToStr(n) == IF n < 10 THEN <<Digit(n)>>
               ELSE IntToStr(n \div 10) \o <<Digit(n % 10)>>

\* s.endswith(c) for a one-character c
EndsWith(s, c) == Len(s) > 0 /\ s[Len(s)] = c

\* needle in hay (Python's substring test)
Contains(hay, needle) ==
    \E i \in 0..(Len(hay) - Len(needle)) :
        \A j \in 1..Len(needle) : hay[i + j] = needle[j]

\* the index of the first c in s, or 0
IndexOf(s, c) ==
    IF \E i \in 1..Len(s) : s[i] = c
    THEN CHOOSE i \in 1..Len(s) : s[i] = c /\ \A j \in 1..(i - 1) : s[j] # c
    ELSE 0

\* s.split(c, 1)[0]
Before(s, c) == IF IndexOf(s, c) = 0 THEN s ELSE SubSeq(s, 1, IndexOf(s, c) - 1)

\* ------------------------------------------------------------ the inputs

SLASH == <<"/">>
INDEX_HTML == <<"/", "i", "n", "d", "e", "x", ".", "h", "t", "m", "l">>
API_TEST == <<"/", "a", "p", "i", "/", "t", "e", "s", "t">>
NOPE_TXT == <<"/", "n", "o", "p", "e", ".", "t", "x", "t">>
A_TXT == <<"/", "a", ".", "t", "x", "t">>

\* the request paths clients send
Paths == { SLASH, INDEX_HTML, API_TEST, NOPE_TXT, A_TXT,
           SLASH \o <<"?", "x">>, API_TEST \o <<"?", "x">>, API_TEST \o SLASH }

\* the ports start_test_server is called with
Ports == {80, 9999}

\* client addresses
Clients == {"127.0.0.1"}

SERVICE_PREFIX == "JUPYTERHUB_SERVICE_PREFIX"
BASE_URL == "JUPYTERHUB_BASE_URL"
USER == "JUPYTERHUB_USER"

\* the values an environment variable takes when it is set
EnvValues(name) ==
    IF name = SERVICE_PREFIX
    THEN { <<>>, <<"f", "o", "o">>, <<"f", "o", "o", "/">> }
    ELSE { <<"u">> }

EnvNames == {SERVICE_PREFIX, BASE_URL, USER}

\* an environment variable: unset, or set to a value
Unset == [set |-> FALSE, value |-> <<>>]
IsSet(v) == [set |-> TRUE, value |-> v]

\* the environments a process runs in: each variable unset or set
Environments ==
    { e \in [EnvNames -> {Unset} \cup { IsSet(v) : v \in UNION { EnvValues(n) : n \in EnvNames } }] :
        \A n \in EnvNames : e[n].set => e[n].value \in EnvValues(n) }

\* os.environ.get(key, default)
os_environ_get(env, key, default) == IF env[key].set THEN env[key].value ELSE default

\* what the working directory may hold when a request arrives (its only
\* directory is the root)
Cwds == { {}, {A_TXT, INDEX_HTML} }

\* -------------------------------------------------------- the server object

\* socketserver.TCPServer(("", port), Handler): the attributes its constructor
\* sets (server_bind stores the bound address; http.server.HTTPServer would
\* also set server_name and server_port, TCPServer does not)
TCPServer(port) ==
    [server_address |-> <<"0.0.0.0", port>>, socket |-> "listening"]

NoServer == [socket |-> "none"]

\* httpd.server_close(), which the with statement runs on leaving its block
server_close(srv) ==
    IF srv.socket = "listening" THEN [srv EXCEPT !.socket = "closed"] ELSE srv

hasattr(obj, name) == name \in DOMAIN obj

\* ------------------------------------------------------------- the handler

\* the request line of a GET the client sends
requestline(path) == <<"GET", " ">> \o path \o <<" ", "HTTP/1.1">>

\* a log_message that leaves out the client address
log_message_without_address(client, msg) == <<"[Proxy Test Server] ">> \o msg

\* ProxyTestHandler.log_message: the line it prints, address_string() first
log_message(client, msg) == <<"[Proxy Test Server] ", client, " - ">> \o msg

\* BaseHTTPRequestHandler.log_request, which send_response calls
log_request(client, path, code) ==
    log_message(client, <<"\"">> \o requestline(path) \o <<"\"", " ">>
                          \o IntToStr(code) \o <<" ", "-">>)

\* BaseHTTPRequestHandler.log_error, which send_error calls
log_error(client, code, message) ==
    log_message(client, <<"code ">> \o IntToStr(code) \o <<", message ", message>>)

\* the proxy prefix of lines 39-41
proxy_prefix(env) ==
    LET prefix == os_environ_get(env, SERVICE_PREFIX, <<>>)
    IN  IF prefix # <<>> /\ ~EndsWith(prefix, "/") THEN prefix \o SLASH ELSE prefix

NOT_SET == <<"N", "o", "t", " ", "s", "e", "t">>
DIRECT_ACCESS == NOT_SET \o <<" ", "(", "d", "i", "r", "e", "c", "t", " ",
                               "a", "c", "c", "e", "s", "s", ")">>
PROXY == <<"p", "r", "o", "x", "y", "/">>

\* the page of lines 43-181, given the server's port
html_content(path, port, env) ==
    LET prefix == proxy_prefix(env)
    IN  <<"<!DOCTYPE html> ... <h3>Connection Details:</h3>",
          "<p><strong>Request Path:</strong> <code>">> \o path
        \o <<"</code></p>", "<p><strong>Server Port:</strong> <code>">>
        \o IntToStr(port)
        \o <<"</code></p>", "<p><strong>Proxy Prefix:</strong> <code>">>
        \o (IF prefix # <<>> THEN prefix ELSE DIRECT_ACCESS)
        \o <<"</code></p>", "<p><strong>Access URL:</strong> <code>">>
        \o prefix \o PROXY \o IntToStr(port) \o SLASH
        \o <<"</code></p>", "... <h3>Environment Variables:</h3>",
             "<li><strong>JUPYTERHUB_SERVICE_PREFIX:</strong> <code>">>
        \o os_environ_get(env, SERVICE_PREFIX, NOT_SET)
        \o <<"</code></li>", "<li><strong>JUPYTERHUB_BASE_URL:</strong> <code>">>
        \o os_environ_get(env, BASE_URL, NOT_SET)
        \o <<"</code></li>", "<li><strong>JUPYTERHUB_USER:</strong> <code>">>
        \o os_environ_get(env, USER, NOT_SET)
        \o <<"</code></li>", "... console.log('Proxy prefix:', '">>
        \o prefix \o <<"'); ... </html>">>

\* repr() of a str without quotes or backslashes in it
PyRepr(s) == <<"'">> \o s \o <<"'">>

STATUS == <<"s", "t", "a", "t", "u", "s">>
OK == <<"o", "k">>

\* str(response) of the dict of lines 191-196: Python's repr of a dict
str_response(path, port) ==
    <<"{">> \o PyRepr(STATUS) \o <<":", " ">> \o PyRepr(OK)
    \o <<",", " ">> \o PyRepr(<<"message">>) \o <<":", " ">>
    \o PyRepr(<<"API endpoint working through proxy">>)
    \o <<",", " ">> \o PyRepr(<<"port">>) \o <<":", " ">> \o IntToStr(port)
    \o <<",", " ">> \o PyRepr(<<"path">>) \o <<":", " ">> \o PyRepr(path)
    \o <<"}">>

\* what a handled request produced: the branch of do_GET that ran, the status
\* line and Content-type sent, the body written, the exception that ended the
\* handler (if any), the lines printed and the server object afterwards
Handled(branch, status, ctype, body, raised, out, srv) ==
    [branch |-> branch, status |-> status, ctype |-> ctype, body |-> body,
     raised |-> raised, out |-> out, server |-> srv]

\* SimpleHTTPRequestHandler.send_error(404, "File not found")
send_error_404(path, client, srv) ==
    Handled("static", 404, "text/html;charset=utf-8",
            <<"<!DOCTYPE HTML> ... Error code: 404 ... File not found ...">>,
            "", <<log_error(client, 404, "File not found"),
                  log_request(client, path, 404)>>, srv)

\* SimpleHTTPRequestHandler.guess_type, for the files of Cwds
guess_type(file) == IF EndsWith(file, "l") THEN "text/html" ELSE "text/plain"

\* serving an existing file: send_head's 200 and copyfile
send_file(path, file, client, srv) ==
    Handled("static", 200, guess_type(file), <<"<the bytes of ">> \o file \o <<">">>,
            "", <<log_request(client, path, 200)>>, srv)

\* SimpleHTTPRequestHandler.do_GET: translate_path drops the query and the
\* fragment; a directory is answered with its index.html or a listing, a
\* file with its bytes, anything absent with 404
SimpleHTTPRequestHandler_do_GET(path, client, srv, cwd) ==
    LET file == Before(Before(path, "?"), "#")
    IN  IF file = SLASH
        THEN IF INDEX_HTML \in cwd
             THEN send_file(path, INDEX_HTML, client, srv)
             ELSE Handled("static", 200, "text/html; charset=utf-8",
                          <<"<!DOCTYPE HTML> ... Directory listing for ">> \o path
                          \o <<" ...">>,
                          "", <<log_request(client, path, 200)>>, srv)
        ELSE IF EndsWith(file, "/") \/ file \notin cwd
             THEN send_error_404(path, client, srv)
             ELSE send_file(path, file, client, srv)

\* lines 34-183: the headers are out (send_response, send_header,
\* end_headers) before the f-string reads self.server.server_port, an
\* attribute the server object of line 223 may lack; the AttributeError
\* ends the handler with nothing written after the headers
home_page(path, client, srv, env) ==
    IF hasattr(srv, "server_port")
    THEN Handled("home", 200, "text/html", html_content(path, srv.server_port, env),
                 "", <<log_request(client, path, 200)>>, srv)
    ELSE Handled("home", 200, "text/html", <<>>,
                 "AttributeError", <<log_request(client, path, 200)>>, srv)

\* lines 187-198, likewise
api_test(path, client, srv) ==
    IF hasattr(srv, "server_port")
    THEN Handled("api", 200, "application/json", str_response(path, srv.server_port),
                 "", <<log_request(client, path, 200)>>, srv)
    ELSE Handled("api", 200, "application/json", <<>>,
                 "AttributeError", <<log_request(client, path, 200)>>, srv)

\* a do_GET that compares the path without its query string
do_GET_ignoring_query(path, client, srv, env, cwd) ==
    LET p == Before(path, "?")
    IN  IF p = SLASH \/ p = INDEX_HTML THEN home_page(path, client, srv, env)
        ELSE IF p = API_TEST THEN api_test(path, client, srv)
        ELSE SimpleHTTPRequestHandler_do_GET(path, client, srv, cwd)

\* a do_GET that counts the requests it served on the server object
do_GET_counting(path, client, srv, env, cwd) ==
    LET r == IF path = SLASH \/ path = INDEX_HTML THEN home_page(path, client, srv, env)
             ELSE IF path = API_TEST THEN api_test(path, client, srv)
             ELSE SimpleHTTPRequestHandler_do_GET(path, client, srv, cwd)
        n == IF hasattr(srv, "requests") THEN srv.requests ELSE 0
    IN  [r EXCEPT !.server = ("requests" :> (1 - n)) @@ srv]

\* ProxyTestHandler.do_GET
do_GET(path, client, srv, env, cwd) ==
    IF path = SLASH \/ path = INDEX_HTML THEN home_page(path, client, srv, env)
    ELSE IF path = API_TEST THEN api_test(path, client, srv)
    ELSE SimpleHTTPRequestHandler_do_GET(path, client, srv, cwd)

\* ------------------------------------------------------------ the process

VARIABLES
    platform,     \* the operating system the interpreter runs on
    environ,      \* os.environ
    ncalls,       \* how many calls of start_test_server were made
    call,         \* the call the main thread is in, or has last left
    pc,           \* where the main thread is
    httpd,        \* per call, the server object of line 223
    thread,       \* per call, the thread of line 246
    printed,      \* the lines the last step printed on standard output
    exchange,     \* the last request a client sent, with what came back
    alive         \* whether the process still runs

vars == <<platform, environ, ncalls, call, pc, httpd, thread, printed,
          exchange, alive>>

Platforms == {"linux", "darwin"}

CallIds == 1..MaxCalls

\* the errno module's values on each platform
Errno(os, kind) ==
    CASE kind = "EACCES" -> 13
      [] kind = "EMFILE" -> 24
      [] kind = "EADDRINUSE" -> IF os = "darwin" THEN 48 ELSE 98

NoError == [type |-> "none", errno |-> 0, kind |-> "none"]
OSError(os, kind) == [type |-> "OSError", errno |-> Errno(os, kind), kind |-> kind]
KeyboardInterrupt == [type |-> "KeyboardInterrupt", errno |-> 0, kind |-> "none"]

NoCall == [port |-> 0, background |-> FALSE, outcome |-> "none",
           bind |-> "none", error |-> NoError]

Listening(c) == httpd[c].socket = "listening"

\* whether a socket of this process listens on the port
PortInUse(port) ==
    \E c \in CallIds : Listening(c) /\ httpd[c].server_address[2] = port

\* how the constructor of line 223 may end: socket() fails when the process
\* is out of descriptors; bind() refuses a port in use, by this process or
\* by another, and refuses a privileged port to a process without the
\* privilege
BindOutcomes(port) ==
    {"EMFILE"} \cup
    (IF PortInUse(port) THEN {"EADDRINUSE"}
     ELSE {"ok", "EADDRINUSE"} \cup (IF port < 1024 THEN {"EACCES"} ELSE {}))

BindErrors == {"EADDRINUSE", "EACCES", "EMFILE"}

PORT_IN_USE_MESSAGE(port) ==
    << <<"Error: Port ">> \o IntToStr(port) \o <<" is already in use.">>,
       <<"   Try a different port or stop the existing server.">> >>

\* an except clause that takes every OSError for a port in use
except_OSError_any(e, port) ==
    [out |-> PORT_IN_USE_MESSAGE(port), outcome |-> "None", error |-> NoError]

\* the except clause of lines 256-261: what is printed, how the call ends
except_OSError(e, port) ==
    IF e.errno = 48
    THEN [out |-> PORT_IN_USE_MESSAGE(port), outcome |-> "None", error |-> NoError]
    ELSE [out |-> <<>>, outcome |-> "raised", error |-> e]

\* the banner of lines 224-237
banner(port, env) ==
    LET prefix == os_environ_get(env, SERVICE_PREFIX, <<>>)
        full == IF ~EndsWith(prefix, "/") THEN prefix \o SLASH ELSE prefix
    IN  << <<"  Jupyter Server Proxy Test Server">>,
           <<"  Server running on port ">> \o IntToStr(port),
           <<"  Access via proxy: /">> \o PROXY \o IntToStr(port) \o SLASH >>
        \o (IF prefix # <<>>
            THEN << <<"  Full URL: ">> \o full \o PROXY \o IntToStr(port) \o SLASH >>
            ELSE <<>>)

SHUTTING_DOWN == <<"Shutting down test server...">>

\* whether call c's accept loop is running on an open listening socket
AcceptLoop(c) ==
    /\ Listening(c)
    /\ \/ thread[c] = "serving"
       \/ c = ncalls /\ pc = "serving"

NoResponse == [branch |-> "none", status |-> 0, ctype |-> "", body |-> <<>>,
               raised |-> "", out |-> <<>>, server |-> NoServer]

\* the exchange record before any request was sent
NoExchange == [client |-> "", port |-> 0, path |-> <<>>, call |-> 0,
               answered |-> FALSE, response |-> NoResponse]

\* what a client gets from a port nothing listens on
Refused == [NoResponse EXCEPT !.raised = "ConnectionRefusedError"]

Init ==
    /\ platform \in Platforms
    /\ environ \in Environments
    /\ ncalls = 0
    /\ call = NoCall
    /\ pc = "idle"
    /\ httpd = [c \in CallIds |-> NoServer]
    /\ thread = [c \in CallIds |-> "none"]
    /\ printed = <<>>
    /\ exchange = NoExchange
    /\ alive = TRUE

\* the main thread calls start_test_server(port, background)
Call(port, background) ==
    /\ alive /\ pc = "idle" /\ ncalls < MaxCalls
    /\ ncalls' = ncalls + 1
    /\ call' = [NoCall EXCEPT !.port = port, !.background = background,
                              !.outcome = "running"]
    /\ pc' = "bind"
    /\ printed' = <<>>
    /\ UNCHANGED <<platform, environ, httpd, thread, exchange, alive>>

\* line 223: the constructor binds and listens
BindOk ==
    /\ alive /\ pc = "bind"
    /\ "ok" \in BindOutcomes(call.port)
    /\ httpd' = [httpd EXCEPT ![ncalls] = TCPServer(call.port)]
    /\ call' = [call EXCEPT !.bind = "ok"]
    /\ pc' = "banner"
    /\ printed' = <<>>
    /\ UNCHANGED <<platform, environ, ncalls, thread, exchange, alive>>

\* line 223 raises OSError, and lines 256-261 handle it
BindFails(kind) ==
    /\ alive /\ pc = "bind"
    /\ kind \in BindOutcomes(call.port) \ {"ok"}
    /\ LET r == except_OSError(OSError(platform, kind), call.port)
       IN  /\ printed' = r.out
           /\ call' = [call EXCEPT !.bind = kind, !.outcome = r.outcome,
                                   !.error = r.error]
    /\ pc' = "idle"
    /\ UNCHANGED <<platform, environ, ncalls, httpd, thread, exchange, alive>>

\* lines 224-239
Banner ==
    /\ alive /\ pc = "banner"
    /\ printed' = banner(call.port, environ)
    /\ pc' = IF call.background THEN "spawn" ELSE "serve"
    /\ UNCHANGED <<platform, environ, ncalls, call, httpd, thread, exchange, alive>>

\* lines 246-247: thread.start()
Spawn ==
    /\ alive /\ pc = "spawn"
    /\ thread' = [thread EXCEPT ![ncalls] = "started"]
    /\ pc' = "return"
    /\ printed' = <<>>
    /\ UNCHANGED <<platform, environ, ncalls, call, httpd, exchange, alive>>

\* line 248: return thread, which leaves the with block of line 223
ReturnThread ==
    /\ alive /\ pc = "return"
    /\ httpd' = [httpd EXCEPT ![ncalls] = server_close(httpd[ncalls])]
    /\ call' = [call EXCEPT !.outcome = "thread"]
    /\ pc' = "idle"
    /\ printed' = <<>>
    /\ UNCHANGED <<platform, environ, ncalls, thread, exchange, alive>>

\* line 242, on the spawned thread: serve_forever registers the socket with
\* its selector, which raises ValueError for a closed socket.  (Line 243
\* never runs: KeyboardInterrupt is raised in the main thread only.)
ThreadServe(c) ==
    /\ alive /\ thread[c] = "started"
    /\ thread' = [thread EXCEPT ![c] = IF Listening(c) THEN "serving" ELSE "died"]
    /\ printed' = <<>>
    /\ UNCHANGED <<platform, environ, ncalls, call, pc, httpd, exchange, alive>>

\* line 251, on the main thread
ServeForever ==
    /\ alive /\ pc = "serve"
    /\ pc' = "serving"
    /\ printed' = <<>>
    /\ UNCHANGED <<platform, environ, ncalls, call, httpd, thread, exchange, alive>>

\* an interrupt while the main thread is in line 251: lines 252-254, and
\* the with block is left
InterruptForeground ==
    /\ alive /\ pc = "serving"
    /\ printed' = <<SHUTTING_DOWN>>
    /\ httpd' = [httpd EXCEPT ![ncalls] = server_close(httpd[ncalls])]
    /\ call' = [call EXCEPT !.outcome = "None"]
    /\ pc' = "idle"
    /\ UNCHANGED <<platform, environ, ncalls, thread, exchange, alive>>

\* an interrupt while the main thread is elsewhere in start_test_server:
\* KeyboardInterrupt is no OSError and leaves the function, closing the
\* server if the with block was entered
InterruptStartup ==
    /\ alive /\ pc \in {"bind", "banner", "spawn", "return", "serve"}
    /\ httpd' = [httpd EXCEPT ![ncalls] = server_close(httpd[ncalls])]
    /\ call' = [call EXCEPT !.outcome = "raised", !.error = KeyboardInterrupt]
    /\ pc' = "idle"
    /\ printed' = <<>>
    /\ UNCHANGED <<platform, environ, ncalls, thread, exchange, alive>>

\* an interrupt while the main thread is outside start_test_server ends the
\* process: its sockets are closed and its daemon threads end with it
InterruptProcess ==
    /\ alive /\ pc = "idle"
    /\ alive' = FALSE
    /\ httpd' = [c \in CallIds |-> server_close(httpd[c])]
    /\ thread' = [c \in CallIds |-> IF thread[c] \in {"started", "serving"}
                                     THEN "ended" ELSE thread[c]]
    /\ printed' = <<>>
    /\ UNCHANGED <<platform, environ, ncalls, call, pc, exchange>>

\* a client's GET reaches a running accept loop, which runs the handler
Answer(client, port, path) ==
    /\ alive
    /\ \E c \in CallIds, files \in Cwds :
        /\ AcceptLoop(c) /\ httpd[c].server_address[2] = port
        /\ LET r == do_GET(path, client, httpd[c], environ, files)
           IN  /\ exchange' = [client |-> client, port |-> port, path |-> path,
                               call |-> c, answered |-> TRUE, response |-> r]
               /\ printed' = r.out
               /\ httpd' = [httpd EXCEPT ![c] = r.server]
    /\ UNCHANGED <<platform, environ, ncalls, call, pc, thread, alive>>

\* a client connects to a port no socket of this process listens on: the
\* connection is refused before any request is sent
Refuse(client, port) ==
    /\ ~PortInUse(port)
    /\ exchange' = [NoExchange EXCEPT !.client = client, !.port = port,
                                      !.response = Refused]
    /\ printed' = <<>>
    /\ UNCHANGED <<platform, environ, ncalls, call, pc, httpd, thread, alive>>

\* some thread of the process assigns or deletes an environment variable
SetEnv(name, v) ==
    /\ alive
    /\ v # environ[name]
    /\ v = Unset \/ (v.set /\ v.value \in EnvValues(name))
    /\ environ' = [environ EXCEPT ![name] = v]
    /\ printed' = <<>>
    /\ UNCHANGED <<platform, ncalls, call, pc, httpd, thread, exchange, alive>>

Interrupt == InterruptForeground \/ InterruptStartup \/ InterruptProcess

Request ==
    \/ \E client \in Clients, port \in Ports, path \in Paths :
          Answer(client, port, path)
    \/ \E client \in Clients, port \in Ports : Refuse(client, port)

Next ==
    \/ \E port \in Ports, background \in BOOLEAN : Call(port, background)
    \/ BindOk
    \/ \E kind \in BindErrors : BindFails(kind)
    \/ Banner
    \/ Spawn
    \/ ReturnThread
    \/ \E c \in CallIds : ThreadServe(c)
    \/ ServeForever
    \/ Interrupt
    \/ Request
    \/ \E name \in EnvNames :
          \E v \in {Unset} \cup { IsSet(x) : x \in EnvValues(name) } :
              SetEnv(name, v)

Spec == Init /\ [][Next]_vars

\* ------------------------------------------------------------- properties

\* the two states of the server of call c
ServerState(c) == IF Listening(c) THEN "Listening" ELSE "Stopped"

\* a step in which a request is answered (an Answer step records its client,
\* port and path in exchange and prints the handler's log lines)
AnswerStep ==
    /\ printed' # <<>> /\ exchange'.answered
    /\ Answer(exchange'.client, exchange'.port, exchange'.path)

\* what the client receives: status line, Content-type and body
Sent(r) == <<r.status, r.ctype, r.body>>

\* C1: once start_test_server(port, background=True) has returned its
\* thread handle, the listening socket is still open and the spawned thread
\* has not failed, for as long as the process runs.
C1_BackgroundKeepsListening ==
    (alive /\ call.background /\ call.outcome = "thread")
        => (Listening(ncalls) /\ thread[ncalls] \in {"started", "serving"})

\* C2: a call whose port is already bound ends with the PortInUse kind: it
\* prints the port-in-use message, starts no accept loop and no thread, and
\* returns without raising.
C2_PortInUseReported ==
    [][(\E kind \in BindErrors : BindFails(kind)) /\ call'.bind = "EADDRINUSE"
          => /\ printed' = PORT_IN_USE_MESSAGE(call'.port)
             /\ call'.outcome = "None" /\ call'.error = NoError
             /\ thread'[ncalls] = "none" /\ ServerState(ncalls)' = "Stopped"]_vars

\* C3: a server becomes Listening only by a successful bind, and leaves
\* Listening only by an interrupt of the process.
C3_TwoStateMachine ==
    [][\A c \in CallIds :
          /\ (ServerState(c) = "Stopped" /\ ServerState(c)' = "Listening") => BindOk
          /\ (ServerState(c) = "Listening" /\ ServerState(c)' = "Stopped") => Interrupt
      ]_vars

\* C4: every answer to a request for exactly /api/test has status 200 and a
\* body containing "status": "ok" (in double quotes) and the serving port.
C4_ApiTestBody ==
    (exchange.answered /\ exchange.path = API_TEST)
        => /\ exchange.response.status = 200
           /\ Contains(exchange.response.body,
                       <<"\"">> \o STATUS \o <<"\"", ":", " ", "\"">> \o OK \o <<"\"">>)
           /\ Contains(exchange.response.body, IntToStr(exchange.port))

\* C5: a foreground call that bound its port is Listening until an interrupt
\* arrives and then returns None, and every GET of / it answers has status
\* 200, Content-type text/html and the port number in the body.
C5_ForegroundServesHomePage ==
    /\ (~call.background /\ call.bind = "ok" /\ pc = "serving") => Listening(ncalls)
    /\ (~call.background /\ call.bind = "ok" /\ call.outcome = "None") => ~Listening(ncalls)
    /\ (exchange.answered /\ exchange.path = SLASH)
          => /\ exchange.response.status = 200
             /\ exchange.response.ctype = "text/html"
             /\ Contains(exchange.response.body, IntToStr(exchange.port))

\* the prefix C6 describes: empty when the variable is unset, the value with
\* one "/" appended when it is set and does not end with "/", else the value
ClaimedPrefix(env) ==
    IF ~env[SERVICE_PREFIX].set THEN <<>>
    ELSE IF ~EndsWith(env[SERVICE_PREFIX].value, "/")
         THEN env[SERVICE_PREFIX].value \o SLASH
         ELSE env[SERVICE_PREFIX].value

\* C6: the home page's Access URL is the derived prefix followed by
\* proxy/<port>/, and its Proxy Prefix field reads "Not set (direct access)"
\* when the variable is unset.
C6_AccessUrl ==
    [][(AnswerStep /\ exchange'.path \in {SLASH, INDEX_HTML})
          => /\ Contains(exchange'.response.body,
                         <<"<p><strong>Access URL:</strong> <code>">>
                         \o ClaimedPrefix(environ) \o PROXY
                         \o IntToStr(exchange'.port) \o SLASH \o <<"</code></p>">>)
             /\ ~environ[SERVICE_PREFIX].set
                   => Contains(exchange'.response.body,
                               <<"<p><strong>Proxy Prefix:</strong> <code>">>
                               \o DIRECT_ACCESS \o <<"</code></p>">>)]_vars

\* C7: when the constructor of line 223 fails for another reason than the
\* port being in use, the call raises that same error, prints no
\* port-in-use message, spawns no thread and leaves the server Stopped.
C7_OtherBindFailureSurfaces ==
    (call.bind \in BindErrors \ {"EADDRINUSE"})
        => /\ call.outcome = "raised"
           /\ call.error = OSError(platform, call.bind)
           /\ printed = <<>>
           /\ thread[ncalls] = "none"
           /\ ServerState(ncalls) = "Stopped" /\ httpd[ncalls] = NoServer

C7_Witness ==
    call.bind = "EACCES" /\ call.outcome = "raised" /\ platform = "darwin"

C9_DispatchByExactPath ==
    exchange.answered
        => /\ exchange.response.branch = "home"
                <=> exchange.path \in {SLASH, INDEX_HTML}
           /\ exchange.response.branch = "api" <=> exchange.path = API_TEST
           /\ exchange.response.branch = "static"
                <=> exchange.path \notin {SLASH, INDEX_HTML, API_TEST}
           /\ exchange.path = NOPE_TXT => exchange.response.status = 404

C9_Witness ==
    /\ exchange.answered /\ exchange.path = API_TEST \o <<"?", "x">>
    /\ exchange.response.branch = "static" /\ exchange.response.status = 404

\* C10: answering a request changes neither the server object nor the
\* environment, and what a home-page or /api/test request receives is what
\* a server just bound to the same port sends for that path under the
\* environment of the moment.
C10_Stateless ==
    [][AnswerStep
          => /\ httpd' = httpd /\ environ' = environ
             /\ exchange'.path \in {SLASH, INDEX_HTML, API_TEST}
                   => Sent(exchange'.response)
                        = Sent(do_GET(exchange'.path, exchange'.client,
                                      TCPServer(exchange'.port), environ, {}))]_vars

C10_Witness ==
    /\ exchange.answered /\ exchange.path = INDEX_HTML
    /\ exchange.response.ctype = "text/html"
    /\ environ[SERVICE_PREFIX] = IsSet(<<"f", "o", "o">>)

====
